---------------------------- MODULE Spec2Model ----------------------------
(***************************************************************************)
(* A model of the two units of the repository:                             *)
(*   - deep_bayes/training.py : train_online and train_offline, the        *)
(*     training loops (SpecTrain);                                         *)
(*   - bayesflow/diagnostics.py : plot_recovery, plot_sbc and              *)
(*     plot_calibration_curves (SpecDiag).                                 *)
(* Python's None is the empty tuple and a present value v is <<v>>.        *)
(* Real numbers are integers, and a mean is a reduced fraction <<n, d>>.   *)
(***************************************************************************)
EXTENDS Integers, Sequences, FiniteSets, TLC

VARIABLES
    \* ---- training.py ----
    fn,            \* the function that was called
    iterations,    \* train_online: iterations; train_offline: len(dataset)
    n_smooth,      \* train_online: the smoothing window
    clip_value,    \* None or <<threshold>>
    model_losses,  \* model.losses, the declared auxiliary losses
    p_bar,         \* None or <<[n, postfix]>>, the caller's progress bar
    it,            \* the loop counter (train_offline: bi + 1)
    pc,            \* the position in the function's body
    failedAt,      \* the position at which an exception was raised
    losses,        \* the history: [loss, regularization]
    loss,          \* the task loss of the current iteration
    w_decay,       \* the regularization of the current iteration
    total_loss,    \* loss + w_decay
    gradients,     \* None or <<global norm of the gradients>>
    running_loss,  \* None or <<<<numerator, denominator>>>>
    n_applied,     \* the optimizer's number of applied updates
    steps,         \* the steps the current iteration has performed
    \* ---- diagnostics.py ----
    post_samples,    \* [n][m][p], shape (n_data_sets, n_post_draws, n_params)
    prior_samples,   \* [n][p], shape (n_data_sets, n_params)
    m_pred,          \* [n][k], shape (n_data_sets, n_models)
    uncertainty_agg, \* None or <<the aggregator's name>>
    num_bins,        \* plot_sbc: the number of histogram bins
    est,             \* None or <<point estimates [n][p]>>
    u,               \* None or <<uncertainties [n][p]>>
    n_params,        \* n_params (plot_calibration_curves: n_models)
    param_names,     \* param_names (plot_calibration_curves: model_names)
    n_row,
    n_col,
    axarr,           \* None or <<what plt.subplots returned>>
    ax,              \* None or <<the object the loop indexes>>
    idx,             \* the loop index i or j, from 0
    panels,          \* what has been drawn on each cell of the grid
    ranks,           \* None or <<rank statistics [n][p]>>
    endpoints,       \* None or <<the binomial interval's parameters>>
    cal_errs         \* None or <<expected calibration errors [k]>>

trainVars == <<fn, iterations, n_smooth, clip_value, model_losses, p_bar, it, pc,
               failedAt, losses, loss, w_decay, total_loss, gradients,
               running_loss, n_applied, steps>>

diagIn == <<post_samples, prior_samples, m_pred, uncertainty_agg, num_bins>>

layout == <<n_params, param_names, n_row, n_col, axarr>>

diagVars == <<diagIn, est, u, layout, ax, idx, panels, ranks, endpoints, cal_errs>>

\* the variables of training.py that diagnostics.py never touches
trainOnly == <<iterations, n_smooth, clip_value, model_losses, p_bar, it, losses,
               loss, w_decay, total_loss, gradients, running_loss, n_applied, steps>>

vars == <<trainVars, diagVars>>

-----------------------------------------------------------------------------
(* Bounds *)

MaxIter == 3
MaxSmooth == 3
MaxLoss == 1
MaxAux == 2

-----------------------------------------------------------------------------
(* Values *)

None == <<>>
Some(v) == <<v>>
Get(o) == o[1]

\* clip_value=5. is the default threshold of both loops
ClipValue == 5

LossVals == 0..MaxLoss
\* a gradient norm below the threshold and one above it
GradVals == {ClipValue - 1, ClipValue + 1}

RECURSIVE Gcd(_, _)
Gcd(a, b) == IF b = 0 THEN a ELSE Gcd(b, a % b)

\* the real number n / d, d > 0, n >= 0
Frac(n, d) == LET g == Gcd(n, d) IN <<n \div g, d \div g>>

RECURSIVE SumSeq(_)
SumSeq(s) == IF s = <<>> THEN 0 ELSE Head(s) + SumSeq(Tail(s))

\* tf.add_n(model.losses) if model.losses else 0.
WDecay(ml) == IF ml # <<>> THEN SumSeq(ml) ELSE 0

\* seq[-n:], n >= 1
LastN(s, n) == IF n >= Len(s) THEN s ELSE SubSeq(s, Len(s) - n + 1, Len(s))

\* np.mean(seq), seq not empty
Mean(s) == Frac(SumSeq(s), Len(s))

\* a running loss that forgets the window: the mean of the whole history
RunningLossWholeHistory(i, ns, l, hist) == IF i < ns THEN Frac(l, 1) ELSE Mean(hist)

\* loss if it < n_smooth else np.mean(losses['loss'][-n_smooth:])
RunningLoss(i, ns, l, hist) == IF i < ns THEN Frac(l, 1) ELSE Mean(LastN(hist, ns))

\* clip_gradients(gradients, clip_value, clip_method), global norm
ClipGradients(g, cv) == IF g > cv THEN cv ELSE g

\* a history that records the total loss in place of the task loss
StoreTotalLoss(h, l, w) ==
    [loss |-> Append(h.loss, l + w), regularization |-> Append(h.regularization, w)]

\* losses['regularization'].append(w_decay); losses['loss'].append(loss)
StoreLosses(h, l, w) ==
    [loss |-> Append(h.loss, l), regularization |-> Append(h.regularization, w)]

\* a loop that stops one element early: range(1, iterations)
HasNextButLast(i, n) == i < n - 1

\* range(1, iterations+1) / enumerate(dataset): is there a next element
HasNext(i, n) == i < n

-----------------------------------------------------------------------------
(* train_online, train_offline *)

\* no diagnostics call is in progress
DiagIdle ==
    /\ post_samples = <<>>
    /\ prior_samples = <<>>
    /\ m_pred = <<>>
    /\ uncertainty_agg = None
    /\ num_bins = 0
    /\ est = None
    /\ u = None
    /\ n_params = 0
    /\ param_names = <<>>
    /\ n_row = 0
    /\ n_col = 0
    /\ axarr = None
    /\ ax = None
    /\ idx = 0
    /\ panels = <<>>
    /\ ranks = None
    /\ endpoints = None
    /\ cal_errs = None

InitTrain ==
    /\ fn \in {"train_online", "train_offline"}
    /\ iterations \in 0..MaxIter
    /\ n_smooth \in IF fn = "train_online" THEN 1..MaxSmooth ELSE {1}
    /\ clip_value \in {None, Some(ClipValue)}
    /\ model_losses \in {[k \in 1..n |-> k] : n \in 0..MaxAux}
    /\ p_bar \in {None, Some([n |-> 0, postfix |-> <<>>])}
    /\ it = 0
    /\ pc = "loop"
    /\ failedAt = ""
    /\ losses = [loss |-> <<>>, regularization |-> <<>>]
    /\ loss = 0
    /\ w_decay = 0
    /\ total_loss = 0
    /\ gradients = None
    /\ running_loss = None
    /\ n_applied = 0
    /\ steps = <<>>
    /\ DiagIdle

\* for it in range(1, iterations+1): batch = data_gen(batch_size)
\* for bi, batch in enumerate(dataset):
NextBatch ==
    /\ pc = "loop"
    /\ HasNext(it, iterations)
    /\ it' = it + 1
    /\ steps' = <<"batch">>
    /\ gradients' = None
    /\ pc' = "forward"
    /\ UNCHANGED diagVars
    /\ UNCHANGED <<fn, iterations, n_smooth, clip_value, model_losses, p_bar,
                   failedAt, losses, loss, w_decay, total_loss, running_loss,
                   n_applied>>

\* outputs = model(*inputs)
Forward ==
    /\ pc = "forward"
    /\ steps' = Append(steps, "forward")
    /\ pc' = "loss"
    /\ UNCHANGED diagVars
    /\ UNCHANGED <<fn, iterations, n_smooth, clip_value, model_losses, p_bar, it,
                   failedAt, losses, loss, w_decay, total_loss, gradients,
                   running_loss, n_applied>>

\* loss = loss_fun(*loss_args); w_decay = ...; total_loss = loss + w_decay
ComputeLoss ==
    /\ pc = "loss"
    /\ \E l \in LossVals :
        /\ loss' = l
        /\ w_decay' = WDecay(model_losses)
        /\ total_loss' = l + WDecay(model_losses)
    /\ steps' = Append(steps, "loss")
    /\ pc' = "grad"
    /\ UNCHANGED diagVars
    /\ UNCHANGED <<fn, iterations, n_smooth, clip_value, model_losses, p_bar, it,
                   failedAt, losses, gradients, running_loss, n_applied>>

\* gradients = tape.gradient(total_loss, model.trainable_variables)
\* if clip_value is not None:
TapeGradient ==
    /\ pc = "grad"
    /\ \E g \in GradVals : gradients' = Some(g)
    /\ steps' = Append(steps, "grad")
    /\ pc' = IF clip_value # None THEN "clip" ELSE "apply"
    /\ UNCHANGED diagVars
    /\ UNCHANGED <<fn, iterations, n_smooth, clip_value, model_losses, p_bar, it,
                   failedAt, losses, loss, w_decay, total_loss, running_loss,
                   n_applied>>

\* gradients = clip_gradients(gradients, clip_value, clip_method)
Clip ==
    /\ pc = "clip"
    /\ gradients' = Some(ClipGradients(Get(gradients), Get(clip_value)))
    /\ steps' = Append(steps, "clip")
    /\ pc' = "apply"
    /\ UNCHANGED diagVars
    /\ UNCHANGED <<fn, iterations, n_smooth, clip_value, model_losses, p_bar, it,
                   failedAt, losses, loss, w_decay, total_loss, running_loss,
                   n_applied>>

\* apply_gradients(optimizer, gradients, model.trainable_variables, global_step)
ApplyGradients ==
    /\ pc = "apply"
    /\ n_applied' = n_applied + 1
    /\ steps' = Append(steps, "apply")
    /\ pc' = "store"
    /\ UNCHANGED diagVars
    /\ UNCHANGED <<fn, iterations, n_smooth, clip_value, model_losses, p_bar, it,
                   failedAt, losses, loss, w_decay, total_loss, gradients,
                   running_loss>>

\* Store losses (and, in train_online, the running loss)
Store ==
    /\ pc = "store"
    /\ losses' = StoreLosses(losses, loss, w_decay)
    /\ running_loss' = IF fn = "train_online"
                       THEN Some(RunningLoss(it, n_smooth, loss, losses'.loss))
                       ELSE running_loss
    /\ steps' = Append(steps, "append")
    /\ pc' = IF p_bar # None THEN "report" ELSE "loop"
    /\ UNCHANGED diagVars
    /\ UNCHANGED <<fn, iterations, n_smooth, clip_value, model_losses, p_bar, it,
                   failedAt, loss, w_decay, total_loss, gradients, n_applied>>

\* p_bar.set_postfix_str(...); p_bar.update(1)
Report ==
    /\ pc = "report"
    /\ p_bar' = Some([n |-> Get(p_bar).n + 1,
                      postfix |-> IF fn = "train_online"
                                  THEN <<it, loss, Get(running_loss), w_decay>>
                                  ELSE <<it - 1, loss, w_decay>>])
    /\ pc' = "loop"
    /\ UNCHANGED diagVars
    /\ UNCHANGED <<fn, iterations, n_smooth, clip_value, model_losses, it,
                   failedAt, losses, loss, w_decay, total_loss, gradients,
                   running_loss, n_applied, steps>>

\* return losses
Return ==
    /\ pc = "loop"
    /\ ~HasNext(it, iterations)
    /\ pc' = "returned"
    /\ UNCHANGED diagVars
    /\ UNCHANGED <<fn, iterations, n_smooth, clip_value, model_losses, p_bar, it,
                   failedAt, losses, loss, w_decay, total_loss, gradients,
                   running_loss, n_applied, steps>>

\* the steps that call into the caller's objects or the framework
Fallible == {"forward", "loss", "grad", "clip", "apply", "report"}

\* an exception raised by the step at pc: nothing catches it
Raise ==
    /\ \/ pc \in Fallible
       \/ pc = "loop" /\ HasNext(it, iterations)
    /\ failedAt' = IF pc = "loop" THEN "batch" ELSE pc
    /\ it' = IF pc = "loop" THEN it + 1 ELSE it
    /\ pc' = "failed"
    /\ UNCHANGED diagVars
    /\ UNCHANGED <<fn, iterations, n_smooth, clip_value, model_losses, p_bar,
                   losses, loss, w_decay, total_loss, gradients, running_loss,
                   n_applied, steps>>

NextTrain ==
    \/ NextBatch
    \/ Forward
    \/ ComputeLoss
    \/ TapeGradient
    \/ Clip
    \/ ApplyGradients
    \/ Store
    \/ Report
    \/ Return
    \/ Raise

SpecTrain == InitTrain /\ [][NextTrain]_vars

-----------------------------------------------------------------------------
(* diagnostics.py *)

MaxParams == 7
MaxData == 2
MaxDraws == 2
MaxBins == 2

\* binomial_interval=0.95, in percent
BinomialInterval == 95

\* sample values
Vals == 0..2

\* int(np.ceil(a / b)), a >= 0, b >= 1
CeilDiv(a, b) == (a + b - 1) \div b

\* n_row = int(np.ceil(n_params / 6))
NRow(n) == CeilDiv(n, 6)

\* n_col = int(np.ceil(n_params / n_row))
NCol(n, r) == CeilDiv(n, r)

\* [f'p_{i}' for i in range(1, n_params+1)]: the name p_i is the number i
InferNames(n) == [k \in 1..n |-> k]

\* plt.subplots(n_row, n_col, squeeze=False): always a 2-d array of Axes
SubplotsNoSqueeze(r, c) == [kind |-> "array2d", n |-> r * c]

\* plt.subplots(n_row, n_col): one Axes for a 1 x 1 grid, else an array of Axes
Subplots(r, c) ==
    [kind |-> IF r = 1 /\ c = 1 THEN "axes"
              ELSE IF r = 1 \/ c = 1 THEN "array1d" ELSE "array2d",
     n |-> r * c]

\* axarr.flat exists on an array of Axes, not on one Axes
HasFlat(a) == a.kind # "axes"

\* axarr.flat
Flat(a) == [kind |-> "flat", n |-> a.n]

\* if n_row > 1: ax = axarr.flat else: ax = axarr
SelectAx(r, a) == IF r > 1 THEN Flat(a) ELSE a

\* ax[j] is defined: ax is a 1-d array or a flat iterator with more than j cells
CanIndex(a, j) == a.kind \in {"array1d", "flat"} /\ j < a.n

\* ax.set_title exists on one Axes only
HasSetTitle(a) == a.kind = "axes"

\* arr[:, i] is defined: column i exists
HasColumn(i, ncols) == i < ncols

EmptyPanel == [artists |-> {}, title |-> None, bins |-> None]

NData == Len(prior_samples)
PPrior == Len(prior_samples[1])
NDraws == Len(post_samples[1])
PPost == Len(post_samples[1][1])

\* the draws of data set n for parameter p
Draws(post, n, p) == [m \in 1..Len(post[n]) |-> post[n][m][p]]

RECURSIVE MaxSeq(_)
MaxSeq(s) == IF Len(s) = 1 THEN s[1]
             ELSE LET r == MaxSeq(Tail(s)) IN IF s[1] > r THEN s[1] ELSE r

RECURSIVE MinSeq(_)
MinSeq(s) == IF Len(s) = 1 THEN s[1]
             ELSE LET r == MinSeq(Tail(s)) IN IF s[1] < r THEN s[1] ELSE r

\* point_agg(post_samples, axis=1), point_agg=np.mean
PointAgg(post) ==
    [n \in 1..Len(post) |-> [p \in 1..Len(post[n][1]) |-> Mean(Draws(post, n, p))]]

\* uncertainty_agg(post_samples, axis=1), for the aggregator np.ptp (max - min)
UncertaintyAgg(post) ==
    [n \in 1..Len(post) |->
        [p \in 1..Len(post[n][1]) |->
            MaxSeq(Draws(post, n, p)) - MinSeq(Draws(post, n, p))]]

\* a comparison that counts ties: post_samples <= prior_samples
BelowOrEqual(x, y) == IF x <= y THEN 1 ELSE 0

\* post_samples < prior_samples[:, np.newaxis, :], one element, as 0 or 1
Below(x, y) == IF x < y THEN 1 ELSE 0

\* np.sum(post_samples < prior_samples[:, np.newaxis, :], axis=1)
Ranks(post, prior) ==
    [n \in 1..Len(prior) |->
        [p \in 1..Len(prior[n]) |->
            SumSeq([m \in 1..Len(post[n]) |-> Below(post[n][m][p], prior[n][p])])]]

\* the success probability handed to binom.interval
BinProb(bins) == Frac(1, bins + 1)

\* the arrays a caller passes: N data sets, M draws, P parameters
PostArray(N, M, P, a) ==
    [n \in 1..N |-> [m \in 1..M |-> [p \in 1..P |-> (a * m + n + p) % 3]]]

PriorArray(N, P, b) == [n \in 1..N |-> [p \in 1..P |-> (b + n * p) % 3]]

PredArray(N, K) == [n \in 1..N |-> [k \in 1..K |-> IF k = ((n - 1) % K) + 1 THEN 1 ELSE 0]]

\* no training call is in progress
TrainIdle ==
    /\ iterations = 0
    /\ n_smooth = 1
    /\ clip_value = None
    /\ model_losses = <<>>
    /\ p_bar = None
    /\ it = 0
    /\ losses = [loss |-> <<>>, regularization |-> <<>>]
    /\ loss = 0
    /\ w_decay = 0
    /\ total_loss = 0
    /\ gradients = None
    /\ running_loss = None
    /\ n_applied = 0
    /\ steps = <<>>

InitRecovery ==
    /\ fn = "plot_recovery"
    /\ \E N \in 1..MaxData, M \in 1..MaxDraws, P \in 1..MaxParams, Q \in 0..(MaxParams + 1) :
        /\ post_samples = PostArray(N, M, Q, 1)
        /\ prior_samples = PriorArray(N, P, 0)
    /\ m_pred = <<>>
    /\ uncertainty_agg \in {None, Some("ptp")}
    /\ num_bins = 0

InitSbc ==
    /\ fn = "plot_sbc"
    /\ \E N \in 1..MaxData, M \in 1..MaxDraws, P \in 1..MaxParams, a \in Vals, b \in Vals :
        /\ post_samples = PostArray(N, M, P, a)
        /\ prior_samples = PriorArray(N, P, b)
    /\ m_pred = <<>>
    /\ uncertainty_agg = None
    /\ num_bins \in 1..MaxBins

InitCalibration ==
    /\ fn = "plot_calibration_curves"
    /\ post_samples = <<>>
    /\ prior_samples = <<>>
    /\ \E N \in 1..MaxData, K \in 1..MaxParams : m_pred = PredArray(N, K)
    /\ uncertainty_agg = None
    /\ num_bins = 0

InitDiag ==
    /\ InitRecovery \/ InitSbc \/ InitCalibration
    /\ pc = "start"
    /\ failedAt = ""
    /\ est = None
    /\ u = None
    /\ n_params = 0
    /\ param_names = <<>>
    /\ n_row = 0
    /\ n_col = 0
    /\ axarr = None
    /\ ax = None
    /\ idx = 0
    /\ panels = <<>>
    /\ ranks = None
    /\ endpoints = None
    /\ cal_errs = None
    /\ TrainIdle

\* n_params ... f, axarr = plt.subplots(n_row, n_col, figsize=fig_size)
Layout(n) ==
    /\ n_params' = n
    /\ param_names' = InferNames(n)
    /\ n_row' = NRow(n)
    /\ n_col' = NCol(n, NRow(n))
    /\ axarr' = Some(Subplots(NRow(n), NCol(n, NRow(n))))
    /\ panels' = [k \in 1..(NRow(n) * NCol(n, NRow(n))) |-> EmptyPanel]

\* an exception leaves the function
Fail(what) ==
    /\ pc' = "failed"
    /\ failedAt' = what

\* ---------------- plot_recovery ----------------

\* est = point_agg(post_samples, axis=1); u = uncertainty_agg(post_samples, axis=1)
RecAggregate ==
    /\ fn = "plot_recovery" /\ pc = "start"
    /\ uncertainty_agg # None
    /\ est' = Some(PointAgg(post_samples))
    /\ u' = Some(UncertaintyAgg(post_samples))
    /\ pc' = "layout"
    /\ UNCHANGED <<fn, failedAt, diagIn, layout, ax, idx, panels, ranks, endpoints,
                   cal_errs, trainOnly>>

\* uncertainty_agg(post_samples, axis=1) with uncertainty_agg = None
RecAggregateNone ==
    /\ fn = "plot_recovery" /\ pc = "start"
    /\ uncertainty_agg = None
    /\ est' = Some(PointAgg(post_samples))
    /\ Fail("uncertainty_agg")
    /\ UNCHANGED <<fn, diagIn, u, layout, ax, idx, panels, ranks, endpoints,
                   cal_errs, trainOnly>>

RecLayout ==
    /\ fn = "plot_recovery" /\ pc = "layout"
    /\ Layout(PPrior)
    /\ pc' = "flat"
    /\ UNCHANGED <<fn, failedAt, diagIn, est, u, ax, idx, ranks, endpoints,
                   cal_errs, trainOnly>>

\* enumerate(axarr.flat)
RecFlat ==
    /\ fn = "plot_recovery" /\ pc = "flat"
    /\ HasFlat(Get(axarr))
    /\ ax' = Some(Flat(Get(axarr)))
    /\ idx' = 0
    /\ pc' = "loop"
    /\ UNCHANGED <<fn, failedAt, diagIn, est, u, layout, panels, ranks, endpoints,
                   cal_errs, trainOnly>>

\* axarr.flat on one Axes
RecFlatError ==
    /\ fn = "plot_recovery" /\ pc = "flat"
    /\ ~HasFlat(Get(axarr))
    /\ Fail("axarr.flat")
    /\ UNCHANGED <<fn, diagIn, est, u, layout, ax, idx, panels, ranks, endpoints,
                   cal_errs, trainOnly>>

\* the columns the body reads: prior_samples[:, i], est[:, i], u[:, i], param_names[i]
RecColumns(i) ==
    /\ HasColumn(i, PPrior)
    /\ HasColumn(i, PPost)
    /\ HasColumn(i, Len(param_names))

\* one pass of the loop body on cell i
RecPanel ==
    /\ fn = "plot_recovery" /\ pc = "loop"
    /\ idx < Get(ax).n
    /\ RecColumns(idx)
    /\ panels' = [panels EXCEPT ![idx + 1] =
                    [artists |-> {"errorbar", "identity", "r2", "corr"},
                     title |-> Some(param_names[idx + 1]),
                     bins |-> None]]
    /\ idx' = idx + 1
    /\ UNCHANGED <<fn, pc, failedAt, diagIn, est, u, layout, ax, ranks, endpoints,
                   cal_errs, trainOnly>>

\* the loop body on a cell whose index is no column
RecIndexError ==
    /\ fn = "plot_recovery" /\ pc = "loop"
    /\ idx < Get(ax).n
    /\ ~RecColumns(idx)
    /\ Fail("index")
    /\ UNCHANGED <<fn, diagIn, est, u, layout, ax, idx, panels, ranks, endpoints,
                   cal_errs, trainOnly>>

\* f.tight_layout(); return f
RecReturn ==
    /\ fn = "plot_recovery" /\ pc = "loop"
    /\ idx = Get(ax).n
    /\ pc' = "returned"
    /\ UNCHANGED <<fn, failedAt, diagVars, trainOnly>>

\* ---------------- plot_sbc ----------------

SbcLayout ==
    /\ fn = "plot_sbc" /\ pc = "start"
    /\ Layout(PPrior)
    /\ pc' = "ranks"
    /\ UNCHANGED <<fn, failedAt, diagIn, est, u, ax, idx, ranks, endpoints,
                   cal_errs, trainOnly>>

\* ranks = np.sum(post_samples < prior_samples[:, np.newaxis, :], axis=1)
SbcRanks ==
    /\ fn = "plot_sbc" /\ pc = "ranks"
    /\ ranks' = Some(Ranks(post_samples, prior_samples))
    /\ pc' = "interval"
    /\ UNCHANGED <<fn, failedAt, diagIn, est, u, layout, ax, idx, panels, endpoints,
                   cal_errs, trainOnly>>

\* N = int(prior_samples.shape[0]); endpoints = binom.interval(...); ax = ...
SbcInterval ==
    /\ fn = "plot_sbc" /\ pc = "interval"
    /\ endpoints' = Some([alpha |-> BinomialInterval, n |-> NData, p |-> BinProb(num_bins)])
    /\ ax' = Some(SelectAx(n_row, Get(axarr)))
    /\ idx' = 0
    /\ pc' = "loop"
    /\ UNCHANGED <<fn, failedAt, diagIn, est, u, layout, panels, ranks, cal_errs,
                   trainOnly>>

\* one pass of the loop body on ax[j]
SbcPanel ==
    /\ fn = "plot_sbc" /\ pc = "loop"
    /\ idx < Len(param_names)
    /\ CanIndex(Get(ax), idx)
    /\ panels' = [panels EXCEPT ![idx + 1] =
                    [artists |-> {"band", "mean", "hist"},
                     title |-> Some(param_names[idx + 1]),
                     bins |-> Some(num_bins)]]
    /\ idx' = idx + 1
    /\ UNCHANGED <<fn, pc, failedAt, diagIn, est, u, layout, ax, ranks, endpoints,
                   cal_errs, trainOnly>>

\* ax[j] on one Axes
SbcIndexError ==
    /\ fn = "plot_sbc" /\ pc = "loop"
    /\ idx < Len(param_names)
    /\ ~CanIndex(Get(ax), idx)
    /\ Fail("ax[j]")
    /\ UNCHANGED <<fn, diagIn, est, u, layout, ax, idx, panels, ranks, endpoints,
                   cal_errs, trainOnly>>

\* f.tight_layout(); return f
SbcReturn ==
    /\ fn = "plot_sbc" /\ pc = "loop"
    /\ idx = Len(param_names)
    /\ pc' = "returned"
    /\ UNCHANGED <<fn, failedAt, diagVars, trainOnly>>

\* ---------------- plot_calibration_curves ----------------

\* the values expected_calibration_error may report, in tenths
EceVals == {0, 1}

\* n_models ... cal_errs, cal_probs = expected_calibration_error(...); subplots; ax
CalLayout ==
    /\ fn = "plot_calibration_curves" /\ pc = "start"
    /\ Layout(Len(m_pred[1]))
    /\ \E e \in EceVals : cal_errs' = Some([k \in 1..Len(m_pred[1]) |-> e])
    /\ ax' = Some(SelectAx(n_row', Get(axarr')))
    /\ idx' = 0
    /\ pc' = "loop"
    /\ UNCHANGED <<fn, failedAt, diagIn, est, u, ranks, endpoints, trainOnly>>

\* for j in range(n_models): the plots and the text on ax[j]
CalLoop ==
    /\ fn = "plot_calibration_curves" /\ pc = "loop"
    /\ IF idx >= n_params
       THEN /\ pc' = "returned"
            /\ UNCHANGED <<failedAt, panels>>
       ELSE IF CanIndex(Get(ax), idx)
       THEN /\ panels' = [panels EXCEPT ![idx + 1].artists = {"curve", "identity", "ece"}]
            /\ pc' = "title"
            /\ UNCHANGED failedAt
       ELSE /\ Fail("ax[j]")
            /\ UNCHANGED panels
    /\ UNCHANGED <<fn, diagIn, est, u, layout, ax, idx, ranks, endpoints, cal_errs,
                   trainOnly>>

\* ax.set_title(model_names[j])
CalTitle ==
    /\ fn = "plot_calibration_curves" /\ pc = "title"
    /\ IF HasSetTitle(Get(ax))
       THEN /\ panels' = [panels EXCEPT ![1].title = Some(param_names[idx + 1])]
            /\ idx' = idx + 1
            /\ pc' = "loop"
            /\ UNCHANGED failedAt
       ELSE /\ Fail("ax.set_title")
            /\ UNCHANGED <<panels, idx>>
    /\ UNCHANGED <<fn, diagIn, est, u, layout, ax, ranks, endpoints, cal_errs,
                   trainOnly>>

NextDiag ==
    \/ RecAggregate
    \/ RecAggregateNone
    \/ RecLayout
    \/ RecFlat
    \/ RecFlatError
    \/ RecPanel
    \/ RecIndexError
    \/ RecReturn
    \/ SbcLayout
    \/ SbcRanks
    \/ SbcInterval
    \/ SbcPanel
    \/ SbcIndexError
    \/ SbcReturn
    \/ CalLayout
    \/ CalLoop
    \/ CalTitle

SpecDiag == InitDiag /\ [][NextDiag]_vars

-----------------------------------------------------------------------------
(* Properties of the training loops *)

RECURSIVE SumRange(_, _, _)
SumRange(s, lo, hi) == IF lo > hi THEN 0 ELSE s[hi] + SumRange(s, lo, hi - 1)

Min(a, b) == IF a < b THEN a ELSE b

IsPrefix(s, t) == Len(s) <= Len(t) /\ \A k \in 1..Len(s) : s[k] = t[k]

C1_Lengths ==
    /\ Len(losses.loss) = Len(losses.regularization)
    /\ pc = "returned" => Len(losses.loss) = iterations
    /\ pc \in {"loop", "report", "returned"} => Len(losses.loss) = it
    /\ pc \in {"forward", "loss", "grad", "clip", "apply", "store"}
          => Len(losses.loss) = it - 1

C1_AppendOnly ==
    \/ losses' = losses
    \/ /\ Len(losses'.loss) = Len(losses.loss) + 1
       /\ Len(losses'.regularization) = Len(losses.regularization) + 1
       /\ IsPrefix(losses.loss, losses'.loss)
       /\ IsPrefix(losses.regularization, losses'.regularization)

\* C1: when train_online (iterations = n) or train_offline (a dataset of b
\* batches) returns, both history sequences have exactly n (b) entries; after
\* every completed iteration k both have length k, and a step of the program
\* either leaves the history alone or appends one entry to each sequence.
C1_HistoryLength == [](C1_Lengths) /\ [][C1_AppendOnly]_vars

C1_Witness ==
    /\ pc = "returned"
    /\ iterations = MaxIter
    /\ Len(losses.loss) = MaxIter
    /\ Len(losses.regularization) = MaxIter

\* C2 as stated: at every iteration it of train_online the running loss is
\* the arithmetic mean of the last min(n_smooth, it) recorded losses.
C2_RunningMeanAlways ==
    (fn = "train_online" /\ running_loss # None) =>
        LET k == Len(losses.loss)
            w == Min(n_smooth, k)
            r == Get(running_loss)
        IN  r[1] * w = r[2] * SumRange(losses.loss, k - w + 1, k)

\* C2 as amended: at iteration it of train_online the running loss is the
\* arithmetic mean of the last n_smooth recorded losses when it >= n_smooth,
\* and the loss of iteration it alone when it < n_smooth.
C2_RunningMeanOnceFull ==
    (fn = "train_online" /\ running_loss # None) =>
        LET k == Len(losses.loss)
            r == Get(running_loss)
        IN  /\ k >= 1
            /\ k >= n_smooth =>
                  r[1] * n_smooth = r[2] * SumRange(losses.loss, k - n_smooth + 1, k)
            /\ k < n_smooth => r[1] = r[2] * losses.loss[k]

C2_Witness ==
    /\ fn = "train_online"
    /\ n_smooth = 2
    /\ Len(losses.loss) = 3
    /\ losses.loss[2] # losses.loss[3]
    /\ running_loss = Some(<<1, 2>>)

ExpectedSteps ==
    IF clip_value # None
    THEN <<"batch", "forward", "loss", "grad", "clip", "apply", "append">>
    ELSE <<"batch", "forward", "loss", "grad", "apply", "append">>

ListedSteps == {"batch", "forward", "loss", "grad", "clip", "apply"}

\* C10: in every iteration of both loops the steps occur once each and in the
\* order batch, forward pass, loss and regularization (the sum of the declared
\* auxiliary losses, 0 when there are none), gradients of loss +
\* regularization, clipping iff clip_value is not None, optimizer, append of
\* the task loss (without regularization) and of the regularization; the
\* optimizer's applications equal the history length or exceed it by one; a
\* failure in a step of iteration k leaves k-1 entries and nothing runs after.
C10_StepOrder ==
    /\ IsPrefix(steps, ExpectedSteps)
    /\ (it >= 1 /\ pc \in {"loop", "report", "returned"}) => steps = ExpectedSteps
    /\ pc \in {"grad", "clip", "apply", "store"} =>
          /\ w_decay = SumRange(model_losses, 1, Len(model_losses))
          /\ total_loss = loss + w_decay
    /\ (steps # <<>> /\ steps[Len(steps)] = "append") =>
          /\ losses.loss[Len(losses.loss)] = loss
          /\ losses.regularization[Len(losses.regularization)] = w_decay
          /\ w_decay = SumRange(model_losses, 1, Len(model_losses))
    /\ (steps # <<>> /\ steps[Len(steps)] = "grad") =>
          pc \in {"failed"} \/ (pc = "clip" <=> clip_value # None)
    /\ n_applied \in {Len(losses.loss), Len(losses.loss) + 1}
    /\ n_applied \in {Len(losses.regularization), Len(losses.regularization) + 1}
    /\ (pc = "failed" /\ failedAt \in ListedSteps) =>
          /\ Len(losses.loss) = it - 1
          /\ Len(losses.regularization) = it - 1
          /\ ~ENABLED NextTrain

C10_Witness ==
    /\ pc = "failed"
    /\ failedAt = "apply"
    /\ it = 2
    /\ clip_value # None
    /\ w_decay > 0
    /\ steps = <<"batch", "forward", "loss", "grad", "clip">>
    /\ Len(losses.loss) = 1
    /\ n_applied = 1

-----------------------------------------------------------------------------
(* Properties of the diagnostics *)

\* the cells of the grid for n parameters: the least n_row with 6 n_row >= n,
\* then the least n_col with n_row n_col >= n
GridCells(n) ==
    LET r == CHOOSE x \in 1..n : 6 * x >= n /\ 6 * (x - 1) < n
        c == CHOOSE y \in 1..n : y * r >= n /\ (y - 1) * r < n
    IN  r * c

\* the cells on which something has been drawn
Populated == {k \in 1..Len(panels) : panels[k].artists # {}}

\* C3: in plot_sbc, ranks[n, p] is the number of posterior draws
\* post_samples[n, m, p] strictly below prior_samples[n, p], and so lies in
\* the closed range [0, num_draws].
C3_RankIsCount ==
    (fn = "plot_sbc" /\ ranks # None) =>
        /\ Len(Get(ranks)) = NData
        /\ \A n \in 1..NData :
            /\ Len(Get(ranks)[n]) = PPrior
            /\ \A p \in 1..PPrior :
                /\ Get(ranks)[n][p] =
                      Cardinality({m \in 1..NDraws :
                                     post_samples[n][m][p] < prior_samples[n][p]})
                /\ Get(ranks)[n][p] \in 0..NDraws

C3_Witness ==
    /\ fn = "plot_sbc"
    /\ ranks # None
    /\ NDraws >= 2
    /\ \E n \in 1..NData, p \in 1..PPrior :
        /\ Get(ranks)[n][p] > 0
        /\ Get(ranks)[n][p] < NDraws
        /\ \E m \in 1..NDraws : post_samples[n][m][p] = prior_samples[n][p]

\* C4: in plot_sbc the confidence band is the binomial interval for the given
\* confidence level, with N trials (the number of data sets) and success
\* probability 1/num_bins, the probability of one of the num_bins bins drawn.
C4_BandProbability ==
    (fn = "plot_sbc" /\ endpoints # None) =>
        /\ Get(endpoints).alpha = BinomialInterval
        /\ Get(endpoints).n = NData
        /\ Get(endpoints).p[1] * num_bins = Get(endpoints).p[2]
        /\ \A k \in Populated : panels[k].bins = Some(num_bins)

\* C5: for every n_params >= 1, with both arrays agreeing on it,
\* plot_recovery completes and populates exactly n_params panels, and every
\* index i it uses satisfies 0 <= i < n_params.
C5_OnePanelPerParameter ==
    (fn = "plot_recovery" /\ uncertainty_agg # None /\ PPost = PPrior) =>
        /\ pc # "failed"
        /\ pc = "loop" => (idx < n_params \/ idx = Get(ax).n)
        /\ pc = "returned" => Populated = 1..n_params

\* C6: for every n_params >= 1, plot_sbc completes and renders one rank
\* histogram per parameter, each on its own panel of the grid.
C6_OneHistogramPerParameter ==
    fn = "plot_sbc" =>
        /\ pc # "failed"
        /\ pc = "returned" =>
              /\ Populated = 1..n_params
              /\ \A k \in 1..n_params :
                    "hist" \in panels[k].artists /\ panels[k].title = Some(k)

\* C7: plot_recovery called with uncertainty_agg = None does not fail: it
\* computes no uncertainty and returns the figure.
C7_NoneGivesScatter ==
    (fn = "plot_recovery" /\ uncertainty_agg = None
        /\ PPost = PPrior /\ PPrior \in 2..6) =>
        /\ pc # "failed"
        /\ u = None

\* C8: for n_models >= 1, plot_calibration_curves completes and returns a
\* figure in which each model has its own panel with its curve, the diagonal,
\* its expected calibration error and its title.
C8_CalibrationCompletes ==
    fn = "plot_calibration_curves" =>
        /\ pc # "failed"
        /\ pc = "returned" =>
              \A k \in 1..n_params :
                  /\ panels[k].artists = {"curve", "identity", "ece"}
                  /\ panels[k].title = Some(k)

\* C9 as stated: plot_recovery fails whenever the parameter counts of
\* post_samples and prior_samples differ, in both directions.
C9_FailsOnAnyMismatch ==
    (fn = "plot_recovery" /\ PPost # PPrior) => pc # "returned"

\* C9 as amended: plot_recovery fails whenever post_samples has fewer
\* parameters than prior_samples. When it has more, the call fails exactly
\* when n_params = 1, or the grid has more cells than n_params, or
\* uncertainty_agg is None, and returns a figure otherwise. The call always
\* ends, in a failure or in a return.
C9_FailsOnFewer ==
    (fn = "plot_recovery" /\ PPost # PPrior) =>
        /\ PPost < PPrior => pc # "returned"
        /\ (PPost > PPrior /\ pc = "returned") =>
              PPrior >= 2 /\ GridCells(PPrior) = PPrior /\ uncertainty_agg # None
        /\ (PPost > PPrior /\ PPrior >= 2 /\ GridCells(PPrior) = PPrior
                /\ uncertainty_agg # None) => pc # "failed"
        /\ pc \notin {"returned", "failed"} => ENABLED NextDiag

C9_Witness ==
    /\ fn = "plot_recovery"
    /\ PPost < PPrior
    /\ PPost >= 1
    /\ pc = "failed"
    /\ failedAt = "index"
    /\ idx = PPost
    /\ Cardinality(Populated) = PPost

=============================================================================
